---- MODULE Spec2Model ----
(***************************************************************************)
(* Hedonic pricing engine of depre-city: the Model Builder                 *)
(* (generateMarketModel), the Predictor (predictPrice,                     *)
(* calculatePriceRange) and the Decomposer (calculateComponentImpacts).    *)
(*                                                                         *)
(* Numbers.  Attribute values and coefficients are integers.  A computed   *)
(* price is kept in closed form as a record [nan, m, x] that stands for    *)
(* the real number (m / 100) * e^(x / 100), so that Math.exp, the division *)
(* by an exponential and the z-score 1.28 are exact.  Math.log is          *)
(* the integer part of the natural logarithm; the attribute values used    *)
(* below are chosen so that it, and every division, is exact.              *)
(* Strings are sequences of one-character strings.                         *)
(***************************************************************************)
EXTENDS Integers, Sequences, FiniteSets, TLC

VARIABLES
    data,          \* the listing records handed to the Model Builder
    fit,           \* <<>> or <<outcome of the last generateMarketModel call>>
    currentYear,   \* the clock, as read by new Date().getFullYear()
    inputs,        \* the CalculatorInputs of the form
    coefficients,  \* the ModelCoefficients the caller passes
    edits,         \* number of form edits made so far
    calls,         \* the two most recent calls of the Predictor and the
                   \* Decomposer with their results, most recent last
    operands,      \* the matrices and the regression data at hand
    outcome        \* the most recent call of the Matrix library or of the
                   \* OLS Solver with its result, <<>> before the first

vars == <<data, fit, currentYear, inputs, coefficients, edits, calls, operands, outcome>>

(***************************************************************************)
(* Bounds of the model.                                                    *)
(***************************************************************************)
MaxListings == 3
MaxYears == 1
MaxEdits == 1
MaxDim == 2        \* the largest number of rows and of columns of an operand
MaxRows == 2       \* the largest number of rows of regression data

StartYear == 2025

(***************************************************************************)
(* Numbers in closed form.                                                 *)
(***************************************************************************)
NaN == [nan |-> TRUE, m |-> 0, x |-> 0]

\* the real number v
Real(v) == [nan |-> FALSE, m |-> 100 * v, x |-> 0]

\* Math.exp(v)
MathExp(v) == [nan |-> FALSE, m |-> 100, x |-> 100 * v]

\* ceil(e^k) for k = 0 .. 15
PowE == <<1, 3, 8, 21, 55, 149, 404, 1097, 2981, 8104, 22027, 59875,
          162755, 442414, 1202605, 3269018>>

\* the result of an operation that is no finite number: Math.log of 0 or of
\* a negative number, a division by 0
NonFinite == 0 - 1000000

\* Math.log(v): for v >= 1 the k with e^k <= v < e^(k+1)
MathLog(v) ==
    IF v < 1 THEN NonFinite
    ELSE CHOOSE k \in 0..15 : PowE[k + 1] <= v /\ (k = 15 \/ v < PowE[k + 2])

\* a / b
Quotient(a, b) == IF b = 0 THEN NonFinite ELSE a \div b

\* a < b for two numbers in closed form (false when either is NaN, as in JS);
\* the comparison is decided when the two share a factor or differ in sign
Less(a, b) ==
    /\ ~a.nan
    /\ ~b.nan
    /\ CASE a.x = b.x -> a.m < b.m
         [] a.m = b.m -> (a.m > 0 /\ a.x < b.x) \/ (a.m < 0 /\ a.x > b.x)
         [] a.m <= 0 /\ b.m >= 0 -> TRUE
         [] a.m >= 0 /\ b.m <= 0 -> FALSE

\* a / Math.exp(t / 100)
DivExp(a, t) == IF a.nan THEN NaN ELSE [nan |-> FALSE, m |-> a.m, x |-> a.x - t]

\* a * Math.exp(t / 100)
MulExp(a, t) == IF a.nan THEN NaN ELSE [nan |-> FALSE, m |-> a.m, x |-> a.x + t]

\* a + t / 100 for a number that carries no exponential
AddReal(a, t) ==
    IF a.nan \/ a.x # 0 THEN NaN ELSE [nan |-> FALSE, m |-> a.m + t, x |-> 0]

Max(a, b) == IF a >= b THEN a ELSE b

(***************************************************************************)
(* Predictor: predictPrice.                                                *)
(***************************************************************************)
\* the same locals with the logarithms and the quotients taken whatever the
\* presence flags and the square footage are
PredictorTermsUnguarded(in) ==
    LET age == currentYear - in.year
        hasAssessment == IF in.assessment > 0 THEN 1 ELSE 0
        logAssessment == MathLog(in.assessment)
        hasTax == IF in.propertyTax > 0 THEN 1 ELSE 0
        taxPerSqft == Quotient(in.propertyTax, in.sqft)
        feePerSqft == Quotient(in.strataFee * 12, in.sqft)
        hasListPrice == IF in.listPrice # 0 /\ in.listPrice > 0 THEN 1 ELSE 0
        logListPrice == MathLog(in.listPrice)
        extraParking == Max(0, in.parkingSpots - 1)
    IN  [sqft |-> in.sqft,
         age |-> age,
         bathrooms |-> in.bathrooms,
         bedrooms |-> in.bedrooms,
         condition |-> in.condition,
         isRain |-> IF in.isRainscreened THEN 1 ELSE 0,
         isEnd |-> IF in.isEndUnit THEN 1 ELSE 0,
         isAC |-> IF in.hasAC THEN 1 ELSE 0,
         extraParking |-> extraParking,
         logAssessment |-> logAssessment,
         hasAssessment |-> hasAssessment,
         taxPerSqft |-> taxPerSqft,
         hasTax |-> hasTax,
         feePerSqft |-> feePerSqft,
         logListPrice |-> logListPrice,
         hasListPrice |-> hasListPrice]

\* the locals predictPrice derives from the inputs before it sums
PredictorTerms(in) ==
    LET age == currentYear - in.year
        hasAssessment == IF in.assessment > 0 THEN 1 ELSE 0
        logAssessment == IF hasAssessment = 1 THEN MathLog(in.assessment) ELSE 0
        hasTax == IF in.propertyTax > 0 THEN 1 ELSE 0
        taxPerSqft == IF hasTax = 1 /\ in.sqft > 0
                      THEN Quotient(in.propertyTax, in.sqft) ELSE 0
        feePerSqft == IF in.strataFee > 0 /\ in.sqft > 0
                      THEN Quotient(in.strataFee * 12, in.sqft) ELSE 0
        hasListPrice == IF in.listPrice # 0 /\ in.listPrice > 0 THEN 1 ELSE 0
        logListPrice == IF hasListPrice = 1 THEN MathLog(in.listPrice) ELSE 0
        extraParking == Max(0, in.parkingSpots - 1)
    IN  [sqft |-> in.sqft,
         age |-> age,
         bathrooms |-> in.bathrooms,
         bedrooms |-> in.bedrooms,
         condition |-> in.condition,
         isRain |-> IF in.isRainscreened THEN 1 ELSE 0,
         isEnd |-> IF in.isEndUnit THEN 1 ELSE 0,
         isAC |-> IF in.hasAC THEN 1 ELSE 0,
         extraParking |-> extraParking,
         logAssessment |-> logAssessment,
         hasAssessment |-> hasAssessment,
         taxPerSqft |-> taxPerSqft,
         hasTax |-> hasTax,
         feePerSqft |-> feePerSqft,
         logListPrice |-> logListPrice,
         hasListPrice |-> hasListPrice]

\* valParkingCoef with the coefficients of the two garage types exchanged
valParkingCoefExchanged(in, co) ==
    LET afterDouble == IF in.parkingType = "double" THEN co.coefTandemGarage ELSE 0
    IN  IF in.parkingType = "tandem" THEN co.coefDoubleGarage ELSE afterDouble

\* let valParkingCoef = 0; if 'double' ...; if 'tandem' ...
valParkingCoef(in, co) ==
    LET afterDouble == IF in.parkingType = "double" THEN co.coefDoubleGarage ELSE 0
    IN  IF in.parkingType = "tandem" THEN co.coefTandemGarage ELSE afterDouble

\* a coefficient the record may lack: {} when undefined, {v} otherwise
Defined(opt) == opt # {}
ValueOf(opt) == CHOOSE v \in opt : TRUE

\* the sum of the isLogLinear branch with the square-footage term left out
logPriceWithoutSqft(in, co) ==
    LET t == PredictorTerms(in)
    IN  co.intercept
        + (t.age * co.coefAge)
        + (t.bathrooms * co.coefBath)
        + (t.bedrooms * co.coefBedrooms)
        + (t.condition * co.coefCondition)
        + (t.isRain * co.coefRainscreen)
        + (t.isEnd * co.coefEndUnit)
        + (t.isAC * co.coefAC)
        + valParkingCoef(in, co)
        + (t.extraParking * co.coefExtraParking)
        + (t.logAssessment * co.coefAssessment)
        + (t.hasAssessment * co.coefHasAssessment)
        + (t.taxPerSqft * co.coefTax)
        + (t.hasTax * co.coefHasTax)
        + (t.feePerSqft * co.coefFeePerSqft)
        + (t.logListPrice * ValueOf(co.coefListPrice))
        + (t.hasListPrice * ValueOf(co.coefHasListPrice))
        + in.areaCoefVal

\* the sum of the isLogLinear branch
logPrice(in, co) ==
    LET t == PredictorTerms(in)
    IN  co.intercept
        + (t.sqft * co.coefSqft)
        + (t.age * co.coefAge)
        + (t.bathrooms * co.coefBath)
        + (t.bedrooms * co.coefBedrooms)
        + (t.condition * co.coefCondition)
        + (t.isRain * co.coefRainscreen)
        + (t.isEnd * co.coefEndUnit)
        + (t.isAC * co.coefAC)
        + valParkingCoef(in, co)
        + (t.extraParking * co.coefExtraParking)
        + (t.logAssessment * co.coefAssessment)
        + (t.hasAssessment * co.coefHasAssessment)
        + (t.taxPerSqft * co.coefTax)
        + (t.hasTax * co.coefHasTax)
        + (t.feePerSqft * co.coefFeePerSqft)
        + (t.logListPrice * ValueOf(co.coefListPrice))
        + (t.hasListPrice * ValueOf(co.coefHasListPrice))
        + in.areaCoefVal

\* the sum of the linear fallback branch
linearPrice(in, co) ==
    LET t == PredictorTerms(in)
    IN  co.intercept
        + (t.sqft * co.coefSqft)
        + (t.age * co.coefAge)
        + (t.bathrooms * co.coefBath)
        + (t.bedrooms * co.coefBedrooms)
        + (t.condition * co.coefCondition)
        + (t.isRain * co.coefRainscreen)
        + (t.isEnd * co.coefEndUnit)
        + (t.isAC * co.coefAC)
        + valParkingCoef(in, co)
        + (t.extraParking * co.coefExtraParking)
        + (t.logAssessment * co.coefAssessment)
        + (t.hasAssessment * co.coefHasAssessment)
        + (t.taxPerSqft * co.coefTax)
        + (t.hasTax * co.coefHasTax)
        + (t.logListPrice * ValueOf(co.coefListPrice))
        + (t.hasListPrice * ValueOf(co.coefHasListPrice))
        + in.areaCoefVal

\* predictPrice returning the log-price without exponentiating it
predictPriceNoExp(in, co) ==
    IF ~Defined(co.coefListPrice) \/ ~Defined(co.coefHasListPrice)
    THEN NaN
    ELSE IF co.isLogLinear
         THEN Real(logPrice(in, co))
         ELSE Real(linearPrice(in, co))

predictPrice(in, co) ==
    IF ~Defined(co.coefListPrice) \/ ~Defined(co.coefHasListPrice)
    THEN NaN    \* number * undefined
    ELSE IF co.isLogLinear
         THEN MathExp(logPrice(in, co))
         ELSE Real(linearPrice(in, co))

(***************************************************************************)
(* Predictor: calculatePriceRange.  z = 1.28 is 128 hundredths.            *)
(***************************************************************************)
z == 128

\* calculatePriceRange with the lower bound of a linear model left at the price
calculatePriceRangeOneSided(price, co) ==
    IF co.isLogLinear
    THEN [lowerBound |-> DivExp(price, z * co.stdError),
          upperBound |-> MulExp(price, z * co.stdError)]
    ELSE [lowerBound |-> price,
          upperBound |-> AddReal(price, z * co.stdError)]

\* calculatePriceRange with the two bounds exchanged
calculatePriceRangeExchanged(price, co) ==
    IF co.isLogLinear
    THEN [lowerBound |-> MulExp(price, z * co.stdError),
          upperBound |-> DivExp(price, z * co.stdError)]
    ELSE [lowerBound |-> AddReal(price, z * co.stdError),
          upperBound |-> AddReal(price, 0 - (z * co.stdError))]

calculatePriceRange(price, co) ==
    IF co.isLogLinear
    THEN \* margin = Math.exp(z * stdError)
         [lowerBound |-> DivExp(price, z * co.stdError),
          upperBound |-> MulExp(price, z * co.stdError)]
    ELSE [lowerBound |-> AddReal(price, 0 - (z * co.stdError)),
          upperBound |-> AddReal(price, z * co.stdError)]

(***************************************************************************)
(* Decomposer: calculateComponentImpacts.  An impact finalPrice - p is     *)
(* kept as the pair [of |-> finalPrice, without |-> p].                    *)
(***************************************************************************)
\* the counterfactual of a log-linear model taken as finalPrice * Math.exp(term)
CounterfactualMultiplied(finalPrice, isLogLinear, term) ==
    IF isLogLinear THEN MulExp(finalPrice, 100 * term)
                   ELSE AddReal(finalPrice, 0 - (100 * term))

\* isLogLinear ? finalPrice / Math.exp(term) : finalPrice - term
Counterfactual(finalPrice, isLogLinear, term) ==
    IF isLogLinear THEN DivExp(finalPrice, 100 * term)
                   ELSE AddReal(finalPrice, 0 - (100 * term))

\* the log-space (or linear) contribution calculateComponentImpacts removes per group
ImpactTerms(in, co) ==
    LET age == currentYear - in.year
        extraParking == Max(0, in.parkingSpots - 1)
        afterDouble == IF in.parkingType = "double" THEN co.coefDoubleGarage ELSE 0
        parkCoef == IF in.parkingType = "tandem" THEN co.coefTandemGarage ELSE afterDouble
        isEnd == IF in.isEndUnit THEN 1 ELSE 0
        isAC == IF in.hasAC THEN 1 ELSE 0
        isRain == IF in.isRainscreened THEN 1 ELSE 0
        hasAssessment == IF in.assessment > 0 THEN 1 ELSE 0
        logAssessment == IF hasAssessment = 1 THEN MathLog(in.assessment) ELSE 0
        hasTax == IF in.propertyTax > 0 THEN 1 ELSE 0
        taxPerSqft == IF hasTax = 1 /\ in.sqft > 0
                      THEN Quotient(in.propertyTax, in.sqft) ELSE 0
        feePerSqft == IF in.strataFee > 0 /\ in.sqft > 0
                      THEN Quotient(in.strataFee * 12, in.sqft) ELSE 0
    IN  [valAge |-> age * co.coefAge,
         valCondition |-> (in.condition - 1) * co.coefCondition,
         valBath |-> (in.bathrooms - 1) * co.coefBath,
         valBeds |-> (in.bedrooms - 2) * co.coefBedrooms,
         valParking |-> parkCoef + (extraParking * co.coefExtraParking),
         valFeatures |-> (isEnd * co.coefEndUnit) + (isAC * co.coefAC)
                         + (isRain * co.coefRainscreen),
         valAssessment |-> (logAssessment * co.coefAssessment)
                           + (hasAssessment * co.coefHasAssessment),
         valTax |-> (taxPerSqft * co.coefTax) + (hasTax * co.coefHasTax),
         valFee |-> feePerSqft * co.coefFeePerSqft]

Groups == {"valLoc", "valAge", "valCondition", "valBath", "valBeds", "valParking",
           "valFeatures", "valAssessment", "valTax", "valFee"}

calculateComponentImpacts(in, co) ==
    LET finalPrice == predictPrice(in, co)
        t == ImpactTerms(in, co)
    IN  [g \in Groups |->
            [of |-> finalPrice,
             without |->
                IF g = "valLoc"
                THEN (IF co.isLogLinear THEN DivExp(finalPrice, 100 * in.areaCoefVal)
                                        ELSE IF finalPrice.nan THEN NaN ELSE Real(0))
                ELSE Counterfactual(finalPrice, co.isLogLinear, t[g])]]

(***************************************************************************)
(* Matrix library.  An entry is the rational n / d in lowest terms with    *)
(* d > 0, counted in units of 1e-10, so that the pivot floor 1e-10 of      *)
(* inverse is the number 1; d = 0 is NaN, which is also what arithmetic    *)
(* makes of an entry read past the end of a row (undefined).  inverse     *)
(* compares entries with the floor and otherwise only adds, multiplies and *)
(* divides them, so a matrix with entries in another unit behaves as the   *)
(* matrix scaled to this one.                                              *)
(***************************************************************************)
RECURSIVE GCD(_, _)
GCD(a, b) == IF b = 0 THEN a ELSE GCD(b, a % b)

Abs(k) == IF k < 0 THEN 0 - k ELSE k

RatNaN == [n |-> 0, d |-> 0]

IsNaN(q) == q.d = 0

\* n / d in lowest terms; x / 0 is not reached by inverse, whose pivots are
\* never 0, and is carried as NaN
Rat(n, d) ==
    IF d = 0 THEN RatNaN
    ELSE LET g == GCD(Abs(n), Abs(d))
             sign == IF d < 0 THEN 0 - 1 ELSE 1
         IN  [n |-> sign * (n \div g), d |-> sign * (d \div g)]

\* sums and differences are taken over the least common denominator, which
\* keeps the integers small
RatAdd(a, b) ==
    IF IsNaN(a) \/ IsNaN(b) THEN RatNaN
    ELSE LET g == GCD(a.d, b.d)
         IN  Rat((a.n * (b.d \div g)) + (b.n * (a.d \div g)), (a.d \div g) * b.d)

RatSub(a, b) ==
    IF IsNaN(a) \/ IsNaN(b) THEN RatNaN
    ELSE LET g == GCD(a.d, b.d)
         IN  Rat((a.n * (b.d \div g)) - (b.n * (a.d \div g)), (a.d \div g) * b.d)

RECURSIVE RatSum(_)
RatSum(s) == IF s = <<>> THEN Rat(0, 1) ELSE RatAdd(Head(s), RatSum(Tail(s)))

RatMul(a, b) ==
    IF IsNaN(a) \/ IsNaN(b) THEN RatNaN ELSE Rat(a.n * b.n, a.d * b.d)

RatDiv(a, b) ==
    IF IsNaN(a) \/ IsNaN(b) THEN RatNaN ELSE Rat(a.n * b.d, a.d * b.n)

\* Math.abs
MathAbs(a) == IF IsNaN(a) THEN RatNaN ELSE [n |-> Abs(a.n), d |-> a.d]

\* a < b, false when either is NaN
RatLess(a, b) == ~IsNaN(a) /\ ~IsNaN(b) /\ a.n * b.d < b.n * a.d

\* 1e-10 in units of 1e-10
PivotFloor == 1

\* the TypeError of reading a property of undefined, and the Errors thrown
TypeError == [threw |-> TRUE, error |-> "TypeError", data |-> <<>>, rows |-> 0, cols |-> 0]

DimensionMismatch ==
    [threw |-> TRUE, error |-> "Matrix dimension mismatch", data |-> <<>>,
     rows |-> 0, cols |-> 0]

NonSquare ==
    [threw |-> TRUE, error |-> "Cannot invert non-square matrix", data |-> <<>>,
     rows |-> 0, cols |-> 0]

\* new Matrix(data): data[0].length throws when data is empty
NewMatrix(d) ==
    IF d = <<>> THEN TypeError
    ELSE [threw |-> FALSE, error |-> "", data |-> d, rows |-> Len(d), cols |-> Len(d[1])]

\* data[i][j] of a Matrix with row i present: undefined past the end of the row
At(M, i, j) == IF j <= Len(M.data[i]) THEN M.data[i][j] ELSE RatNaN

transpose(M) ==
    NewMatrix([j \in 1..M.cols |-> [i \in 1..M.rows |-> At(M, i, j)]])

\* let sum = 0; for k: sum += this.data[i][k] * other.data[k][j]
RECURSIVE RowByColumn(_, _, _, _, _)
RowByColumn(A, B, i, j, k) ==
    IF k = 0 THEN Rat(0, 1)
    ELSE RatAdd(RowByColumn(A, B, i, j, k - 1), RatMul(At(A, i, k), At(B, k, j)))

\* multiply with the check made on the column counts of both
multiplySameCols(A, B) ==
    IF A.cols # B.cols THEN DimensionMismatch
    ELSE NewMatrix([i \in 1..A.rows |->
                      [j \in 1..B.cols |->
                          IF A.cols <= B.rows THEN RowByColumn(A, B, i, j, A.cols)
                                              ELSE RatNaN]])

multiply(A, B) ==
    IF A.cols # B.rows THEN DimensionMismatch
    ELSE NewMatrix([i \in 1..A.rows |->
                      [j \in 1..B.cols |-> RowByColumn(A, B, i, j, A.cols)]])

\* the pivot taken as found
PivotUnguarded(found) == found

\* let pivot = aug[i][i]; if (Math.abs(pivot) < 1e-10) pivot = 1e-10
PivotOf(found) ==
    IF RatLess(MathAbs(found), Rat(PivotFloor, 1)) THEN Rat(PivotFloor, 1) ELSE found

\* the Gaussian elimination of inverse from step i on: the augmented matrix
\* at its end and the divisions made, each with the diagonal entry found and
\* the pivot divided by
RECURSIVE Eliminate(_, _, _, _)
Eliminate(aug, divisions, i, n) ==
    IF i > n THEN [aug |-> aug, divisions |-> divisions]
    ELSE LET found == aug[i][i]
             pivot == PivotOf(found)
             scaled == [j \in 1..(2 * n) |-> RatDiv(aug[i][j], pivot)]
             next == [k \in 1..n |->
                        IF k = i THEN scaled
                        ELSE [j \in 1..(2 * n) |->
                                 RatSub(aug[k][j], RatMul(aug[k][i], scaled[j]))]]
         IN  Eliminate(next, Append(divisions, [found |-> found, pivot |-> pivot]),
                       i + 1, n)

\* [A | I] of a matrix whose rows all have n entries
Augmented(M) ==
    [i \in 1..M.rows |->
        M.data[i] \o [j \in 1..M.rows |-> IF i = j THEN Rat(1, 1) ELSE Rat(0, 1)]]

inverse(M) ==
    IF M.rows # M.cols THEN NonSquare
    ELSE LET n == M.rows
             aug == Eliminate(Augmented(M), <<>>, 1, n).aug
         IN  NewMatrix([i \in 1..n |-> SubSeq(aug[i], n + 1, 2 * n)])

\* the divisions inverse(M) makes
DivisionsOf(M) ==
    IF M.rows # M.cols THEN <<>>
    ELSE Eliminate(Augmented(M), <<>>, 1, M.rows).divisions

(***************************************************************************)
(* The normal equation of the OLS Solver evaluated on exact numbers in     *)
(* units of 1, for design matrices small enough for that.                  *)
(***************************************************************************)
\* the ridge term 0.0001 with a ridge of 1 in its place
RidgeOfOne == Rat(1, 1)

\* the ridge term 0.0001
Ridge == Rat(1, 10000)

\* for (i < XtX.rows) XtX.data[i][i] += 0.0001
AddRidge(XtX) ==
    [XtX EXCEPT !.data = [i \in 1..XtX.rows |-> [j \in 1..XtX.cols |->
                             IF i = j THEN RatAdd(XtX.data[i][j], Ridge)
                                      ELSE XtX.data[i][j]]]]

\* every diagonal entry the elimination of inverse(M) finds is 1 or more:
\* such an entry is above the floor 1e-10 whether the entries of M are read
\* in units of 1e-10 or in units of 1, and inverse(M) is the inverse the
\* code computes of the matrix in units of 1
AboveFloor(M) ==
    /\ M.rows = M.cols
    /\ \A k \in 1..M.rows : ~RatLess(MathAbs(DivisionsOf(M)[k].found), Rat(1, 1))

\* the matrices of solveOLS up to the coefficients, none of whose steps
\* throws on a design matrix of n >= 1 rows of p >= 1 numbers and n targets
NormalEquation(X_data, y_data) ==
    LET X == NewMatrix(X_data)
        y == NewMatrix([i \in 1..Len(y_data) |-> <<y_data[i]>>])
        Xt == transpose(X)
        XtX == AddRidge(multiply(Xt, X))
        XtX_inv == inverse(XtX)
        term == multiply(XtX_inv, Xt)
        betaMatrix == multiply(term, y)
    IN  [XtX |-> XtX, XtX_inv |-> XtX_inv,
         betas |-> [j \in 1..betaMatrix.rows |-> betaMatrix.data[j][1]]]

(***************************************************************************)
(* OLS Solver as the Model Builder calls it.  The arithmetic of the normal *)
(* equation on a design matrix of 17 or more columns is not evaluated: its *)
(* numerical outcome is the parameter fp, and the coefficient at index j   *)
(* (from 0) is fp * (j + 1), so that coefficients at different indices     *)
(* differ.  The control flow, the shapes and the statistics are the        *)
(* code's.                                                                 *)
(***************************************************************************)
RECURSIVE SumSeq(_)
SumSeq(s) == IF s = <<>> THEN 0 ELSE Head(s) + SumSeq(Tail(s))

\* Math.sqrt on the integers: the integer part of the root
RECURSIVE SqrtBetween(_, _, _)
SqrtBetween(v, low, high) ==
    IF low = high THEN low
    ELSE LET mid == (low + high + 1) \div 2
         IN  IF mid * mid <= v THEN SqrtBetween(v, mid, high)
                               ELSE SqrtBetween(v, low, mid - 1)

MathSqrt(v) == SqrtBetween(v, 0, IF v < 46340 THEN v ELSE 46340)

\* row . betas
Dot(row, betas) == SumSeq([j \in 1..Len(row) |-> row[j] * betas[j]])

\* the residual sum of squares of betas on (X, y)
RSS(X, y, betas) ==
    SumSeq([i \in 1..Len(X) |-> (y[i] - Dot(X[i], betas)) * (y[i] - Dot(X[i], betas))])

\* y_hat of the statistics: for (j < p) y_hat += X_data[i][j] * betas[j]
y_hat(row, betas) == SumSeq([j \in 1..Len(betas) |-> row[j] * betas[j]])

\* sigma2 without the test of n against p
sigma2Unguarded(rss, n, p) == rss \div Max(1, n - p)

\* const sigma2 = n > p ? rss / (n - p) : 0
sigma2Of(rss, n, p) == IF n > p THEN rss \div (n - p) ELSE 0

\* the result of the catch block: one array of p zeros is returned as betas,
\* as stdErrors and as tStats, which shared records
Zeros(p) ==
    LET zeros == [j \in 1..p |-> 0]
    IN  [threw |-> FALSE, caught |-> TRUE, nan |-> FALSE, shared |-> TRUE,
         betas |-> zeros, stdErrors |-> zeros, tStats |-> zeros, divisions |-> {}]

\* the outcome of solveOLS(X_data, y_data): whether an exception left it,
\* whether the catch block was entered, the three arrays, and the divisions
\* of the statistics with their divisors.  Where nan holds, every entry of
\* betas and of stdErrors is NaN (the arrays then carry only their length);
\* where shared holds, the three arrays are one and the same array.  A
\* t-statistic is counted in units of 1e-4.
solveOLS(X_data, y_data, fp) ==
    IF Len(X_data) = 0
    THEN \* new Matrix([]) throws inside try, X_data[0].length throws inside catch
         [threw |-> TRUE, caught |-> TRUE, nan |-> FALSE, shared |-> FALSE, betas |-> <<>>,
          stdErrors |-> <<>>, tStats |-> <<>>, divisions |-> {}]
    ELSE LET n == Len(X_data)
             p == Len(X_data[1])
         IN  IF \/ Len(y_data) = 0    \* new Matrix([]) of y throws
                \/ p = 0              \* X.transpose() ends in new Matrix([])
                \/ Len(y_data) # n    \* term.multiply(y): dimension mismatch
             THEN Zeros(p)
             ELSE IF \E i \in 1..n : Len(X_data[i]) < p
             THEN \* an entry read past the end of a row is undefined: X'X has
                  \* NaN entries, inverse spreads them over the whole matrix
                  [threw |-> FALSE, caught |-> FALSE, nan |-> TRUE, shared |-> FALSE,
                   betas |-> [j \in 1..p |-> 0],
                   stdErrors |-> [j \in 1..p |-> 0],
                   tStats |-> [j \in 1..p |-> 0],
                   divisions |-> IF n > p THEN {[by |-> "n - p", value |-> n - p]}
                                          ELSE {}]
             ELSE LET betas == [j \in 1..p |-> fp * j]
                      rss == SumSeq([i \in 1..n |->
                                        (y_data[i] - y_hat(X_data[i], betas))
                                        * (y_data[i] - y_hat(X_data[i], betas))])
                      sigma2 == sigma2Of(rss, n, p)
                      se == [j \in 1..p |-> MathSqrt(Max(0, sigma2 * 1))]
                  IN  [threw |-> FALSE, caught |-> FALSE, nan |-> FALSE, shared |-> FALSE,
                       betas |-> betas,
                       stdErrors |-> se,
                       tStats |-> [j \in 1..p |->
                                     IF se[j] > 0 THEN (betas[j] * 10000) \div se[j]
                                                  ELSE 0],
                       divisions |->
                           (IF n > p THEN {[by |-> "n - p", value |-> n - p]} ELSE {})
                           \cup {[by |-> "se", value |-> se[j]] :
                                    j \in {k \in 1..p : se[k] > 0}}]

(***************************************************************************)
(* Model Builder: generateMarketModel.  A numeric field that is missing on *)
(* a listing is carried as 0 and a missing subArea as the empty string:    *)
(* the builder tests these fields with ||, && and > 0, which treat the     *)
(* two alike.                                                              *)
(***************************************************************************)
Other == <<"O", "t", "h", "e", "r">>

RECURSIVE TrimStart(_)
TrimStart(s) == IF s # <<>> /\ Head(s) = " " THEN TrimStart(Tail(s)) ELSE s

RECURSIVE TrimEnd(_)
TrimEnd(s) ==
    IF s # <<>> /\ s[Len(s)] = " " THEN TrimEnd(SubSeq(s, 1, Len(s) - 1)) ELSE s

\* String.prototype.trim
Trim(s) == TrimEnd(TrimStart(s))

normalizeLocation(city, subArea) ==
    LET c == Trim(city)
        s == IF subArea # <<>> THEN Trim(subArea) ELSE Other
    IN  c \o <<" ", "-", " ">> \o s

\* the filter of validData with the square-footage threshold made inclusive
isValidInclusive(d) == d.price > 100000 /\ d.sqft >= 300 /\ d.year > 1900 /\ d.fee > 0

\* the filter of validData
isValid(d) == d.price > 100000 /\ d.sqft > 300 /\ d.year > 1900 /\ d.fee > 0

\* the keys of counts with a key repeated for each of its listings
KeysWithRepeats(locs) == locs

\* the keys of counts, in insertion order
RECURSIVE Keys(_)
Keys(locs) ==
    IF locs = <<>> THEN <<>>
    ELSE LET init == SubSeq(locs, 1, Len(locs) - 1)
             last == locs[Len(locs)]
         IN  IF \E i \in 1..Len(init) : init[i] = last
             THEN Keys(init)
             ELSE Append(Keys(init), last)

\* counts[loc]
Count(locs, loc) == Cardinality({i \in 1..Len(locs) : locs[i] = loc})

\* the same sort with a key put ahead of the keys of equal count
RECURSIVE SortByCountTiesAhead(_, _)
SortByCountTiesAhead(keys, locs) ==
    IF keys = <<>> THEN <<>>
    ELSE LET init == SortByCountTiesAhead(SubSeq(keys, 1, Len(keys) - 1), locs)
             last == keys[Len(keys)]
             ahead == {i \in 1..Len(init) : Count(locs, init[i]) > Count(locs, last)}
             k == Cardinality(ahead)
         IN  SubSeq(init, 1, k) \o <<last>> \o SubSeq(init, k + 1, Len(init))

\* the sort with the comparator a[1] - b[1]: stable, by count ascending
RECURSIVE SortByCountAscending(_, _)
SortByCountAscending(keys, locs) ==
    IF keys = <<>> THEN <<>>
    ELSE LET init == SortByCountAscending(SubSeq(keys, 1, Len(keys) - 1), locs)
             last == keys[Len(keys)]
             ahead == {i \in 1..Len(init) : Count(locs, init[i]) <= Count(locs, last)}
             k == Cardinality(ahead)
         IN  SubSeq(init, 1, k) \o <<last>> \o SubSeq(init, k + 1, Len(init))

\* Array.prototype.sort((a, b) => b[1] - a[1]): stable, by count descending
RECURSIVE SortByCount(_, _)
SortByCount(keys, locs) ==
    IF keys = <<>> THEN <<>>
    ELSE LET init == SortByCount(SubSeq(keys, 1, Len(keys) - 1), locs)
             last == keys[Len(keys)]
             ahead == {i \in 1..Len(init) : Count(locs, init[i]) >= Count(locs, last)}
             k == Cardinality(ahead)
         IN  SubSeq(init, 1, k) \o <<last>> \o SubSeq(init, k + 1, Len(init))

\* one row of X
DesignRow(d, distinctAreas) ==
    LET age == currentYear - d.year
        baths == IF d.bathrooms # 0 THEN d.bathrooms ELSE 1
        beds == IF d.bedrooms # 0 THEN d.bedrooms ELSE 2
        feePerSqft == IF d.fee > 0 THEN Quotient(d.fee * 12, d.sqft) ELSE 0
        condition == IF d.condition # 0 THEN d.condition ELSE 3
        isRainscreen == IF d.rainscreen THEN 1 ELSE 0
        isDouble == IF d.parkingType = "garage_double" THEN 1 ELSE 0
        isTandem == IF d.parkingType = "garage_tandem" THEN 1 ELSE 0
        extraParking == Max(0, (IF d.parking # 0 THEN d.parking ELSE 1) - 1)
        isEnd == IF d.isEndUnit THEN 1 ELSE 0
        hasAC == IF d.hasAC THEN 1 ELSE 0
        hasAssessment == IF d.assessment # 0 /\ d.assessment > 0 THEN 1 ELSE 0
        logAssessment == IF hasAssessment = 1 THEN MathLog(d.assessment) ELSE 0
        hasTax == IF d.propertyTax # 0 /\ d.propertyTax > 0 THEN 1 ELSE 0
        taxPerSqft == IF hasTax = 1 THEN Quotient(d.propertyTax, d.sqft) ELSE 0
        loc == normalizeLocation(d.city, d.subArea)
        areaDummies == [k \in 1..Len(distinctAreas) |->
                           IF loc = distinctAreas[k] THEN 1 ELSE 0]
    IN  <<1, d.sqft, age, baths, beds, condition, isRainscreen, hasAC, isEnd,
          isDouble, isTandem, extraParking, logAssessment, hasAssessment,
          taxPerSqft, hasTax, feePerSqft>> \o areaDummies

\* ss.mean
Mean(y) == SumSeq(y) \div Len(y)

\* the map with the entry of each area taken one index earlier
AreaMapShifted(referenceLocation, distinctAreas, values) ==
    [loc \in {referenceLocation} \cup {distinctAreas[k] : k \in 1..Len(distinctAreas)} |->
        IF loc = referenceLocation THEN 0
        ELSE values[16 + (CHOOSE k \in 1..Len(distinctAreas) : distinctAreas[k] = loc)]]

\* map[referenceLocation] = 0;
\* distinctAreas.forEach((area, idx) => map[area] = values[17 + idx])
AreaMap(referenceLocation, distinctAreas, values) ==
    [loc \in {referenceLocation} \cup {distinctAreas[k] : k \in 1..Len(distinctAreas)} |->
        IF loc = referenceLocation THEN 0
        ELSE values[17 + (CHOOSE k \in 1..Len(distinctAreas) : distinctAreas[k] = loc)]]

\* the array betas with the assignment of the fallback left out
MeanFallbackSkipped(betas, y, n) == betas

\* if (betas.every(b => b === 0) && validData.length > 0) betas[0] = ss.mean(y):
\* the array betas afterwards
MeanFallback(betas, y, n) ==
    IF (\A j \in 1..Len(betas) : betas[j] = 0) /\ n > 0
    THEN [betas EXCEPT ![1] = Mean(y)]
    ELSE betas

Threw == [threw |-> TRUE, X |-> <<>>, y |-> <<>>, ols |-> <<>>, model |-> <<>>]

\* the outcome of generateMarketModel(d): whether it threw, the design matrix
\* and target it built, <<what solveOLS returned>> and <<the MarketModel
\* returned>>.  generatedAt,
\* listPriceHeat and modelConfidence are left out.
generateMarketModel(d, fp) ==
    LET validData == SelectSeq(d, isValid)
        allLocations == [i \in 1..Len(validData) |->
                            normalizeLocation(validData[i].city, validData[i].subArea)]
        sortedLocations == SortByCount(Keys(allLocations), allLocations)
    IN  IF sortedLocations = <<>>
        THEN Threw    \* sortedLocations[0][0]: sortedLocations[0] is undefined
        ELSE
        LET referenceLocation == sortedLocations[1]
            distinctAreas == Tail(sortedLocations)
            y == [i \in 1..Len(validData) |-> MathLog(validData[i].price)]
            X == [i \in 1..Len(validData) |-> DesignRow(validData[i], distinctAreas)]
            ols == solveOLS(X, y, fp)
        IN  IF ols.threw THEN Threw ELSE
        LET betas == MeanFallback(ols.betas, y, Len(validData))
            \* tStats is the array just assigned to when the two are one array
            tStats == IF ols.shared THEN betas ELSE ols.tStats
            areaCoefMap == AreaMap(referenceLocation, distinctAreas, betas)
            areaTStatMap == AreaMap(referenceLocation, distinctAreas, tStats)
            finalRSS == RSS(X, y, betas)
            p == Len(X[1])
            n == Len(validData)
            stdError == IF n > p THEN MathSqrt(finalRSS \div (n - p)) ELSE 0
        IN  [threw |-> FALSE,
             X |-> X,
             y |-> y,
             ols |-> <<ols>>,
             model |-> <<[sampleSize |-> Len(validData),
                          intercept |-> betas[1],
                          coefSqft |-> betas[2],
                          coefAge |-> betas[3],
                          coefBath |-> betas[4],
                          coefBedrooms |-> betas[5],
                          coefCondition |-> betas[6],
                          coefRainscreen |-> betas[7],
                          coefAC |-> betas[8],
                          coefEndUnit |-> betas[9],
                          coefDoubleGarage |-> betas[10],
                          coefTandemGarage |-> betas[11],
                          coefExtraParking |-> betas[12],
                          coefAssessment |-> betas[13],
                          coefHasAssessment |-> betas[14],
                          coefTax |-> betas[15],
                          coefHasTax |-> betas[16],
                          coefFeePerSqft |-> betas[17],
                          areaCoefficients |-> areaCoefMap,
                          areaReference |-> referenceLocation,
                          tStats |-> [intercept |-> tStats[1],
                                      coefSqft |-> tStats[2],
                                      coefAge |-> tStats[3],
                                      coefBath |-> tStats[4],
                                      coefBedrooms |-> tStats[5],
                                      coefCondition |-> tStats[6],
                                      coefRainscreen |-> tStats[7],
                                      coefAC |-> tStats[8],
                                      coefEndUnit |-> tStats[9],
                                      coefDoubleGarage |-> tStats[10],
                                      coefTandemGarage |-> tStats[11],
                                      coefExtraParking |-> tStats[12],
                                      coefAssessment |-> tStats[13],
                                      coefHasAssessment |-> tStats[14],
                                      coefTax |-> tStats[15],
                                      coefHasTax |-> tStats[16],
                                      coefFeePerSqft |-> tStats[17],
                                      areaCoefficients |-> areaTStatMap],
                          stdError |-> stdError,
                          isLogLinear |-> TRUE]>>]

(***************************************************************************)
(* The values the collaborators supply.                                    *)
(***************************************************************************)
\* a valid listing
Home ==
    [city |-> <<"A">>, subArea |-> <<"W">>, price |-> 442414, sqft |-> 400,
     year |-> 2015, fee |-> 200, listPrice |-> 0, bathrooms |-> 2, bedrooms |-> 3,
     condition |-> 4, rainscreen |-> TRUE, parkingType |-> "garage_tandem",
     parking |-> 1, isEndUnit |-> FALSE, hasAC |-> FALSE, assessment |-> 442414,
     propertyTax |-> 2400]

\* a valid listing of another location with its optional attributes 0 or missing
Sparse ==
    [city |-> <<" ", "B">>, subArea |-> <<>>, price |-> 162755, sqft |-> 600,
     year |-> 2005, fee |-> 200, listPrice |-> 0, bathrooms |-> 0, bedrooms |-> 0,
     condition |-> 0, rainscreen |-> FALSE, parkingType |-> "garage_double",
     parking |-> 0, isEndUnit |-> TRUE, hasAC |-> TRUE, assessment |-> 0,
     propertyTax |-> 0]

ListingSet ==
    {Home, Sparse,
     [Home EXCEPT !.fee = 0],
     [Home EXCEPT !.price = 100000],
     [Home EXCEPT !.sqft = 300],
     [Home EXCEPT !.year = 1900]}

\* the prediction input that carries the attribute values of listing d
AsInputs(d) ==
    [areaCoefVal |-> 0, year |-> d.year, sqft |-> d.sqft, bathrooms |-> d.bathrooms,
     bedrooms |-> d.bedrooms, assessment |-> d.assessment,
     propertyTax |-> d.propertyTax, strataFee |-> d.fee, listPrice |-> d.listPrice,
     condition |-> d.condition,
     parkingType |-> CASE d.parkingType = "garage_double" -> "double"
                       [] d.parkingType = "garage_tandem" -> "tandem"
                       [] OTHER -> "std",
     parkingSpots |-> d.parking, isEndUnit |-> d.isEndUnit, hasAC |-> d.hasAC,
     isRainscreened |-> d.rainscreen]

\* every attribute at zero, built this year
ZeroInputs ==
    [areaCoefVal |-> 0, year |-> StartYear, sqft |-> 0, bathrooms |-> 0,
     bedrooms |-> 0, assessment |-> 0, propertyTax |-> 0, strataFee |-> 0,
     listPrice |-> 0, condition |-> 0, parkingType |-> "std", parkingSpots |-> 0,
     isEndUnit |-> FALSE, hasAC |-> FALSE, isRainscreened |-> FALSE]

\* the values a form edit can give each field
FieldValues ==
    [areaCoefVal |-> {0, 1}, year |-> {2015, 2005}, sqft |-> {0, 400, 600},
     bathrooms |-> {2, 3}, bedrooms |-> {0, 3}, assessment |-> {0 - 5, 0, 442414},
     propertyTax |-> {0 - 5, 0, 2400}, strataFee |-> {0 - 5, 0, 200},
     listPrice |-> {0 - 5, 0, 442414},
     condition |-> {0, 4}, parkingType |-> {"std", "tandem", "double"},
     parkingSpots |-> {1, 3}, isEndUnit |-> BOOLEAN, hasAC |-> BOOLEAN,
     isRainscreened |-> BOOLEAN]

\* coefficient records in the style of the test suites
Mock ==
    [intercept |-> 13, coefSqft |-> 1, coefAge |-> -1, coefBath |-> 5,
     coefBedrooms |-> 3, coefCondition |-> 2, coefRainscreen |-> 8, coefAC |-> 6,
     coefEndUnit |-> 4, coefDoubleGarage |-> 10, coefTandemGarage |-> 7,
     coefExtraParking |-> 3, coefAssessment |-> 5, coefHasAssessment |-> 2,
     coefTax |-> -2, coefHasTax |-> -1, coefFeePerSqft |-> -1,
     coefListPrice |-> {0}, coefHasListPrice |-> {0},
     isLogLinear |-> TRUE, stdError |-> 1]

\* the same without the list-price coefficients, as in the scenario tests
Bare == [Mock EXCEPT !.coefListPrice = {}, !.coefHasListPrice = {}]

\* the same with a heavy tax coefficient and list-price coefficients
Heavy == [Mock EXCEPT !.coefTax = 150, !.coefListPrice = {1}, !.coefHasListPrice = {2}]

\* the coefficients of the concrete scenario: the rest 0
Scenario ==
    [intercept |-> 13, coefSqft |-> 1, coefAge |-> -1, coefBath |-> 5,
     coefBedrooms |-> 0, coefCondition |-> 0, coefRainscreen |-> 0, coefAC |-> 0,
     coefEndUnit |-> 0, coefDoubleGarage |-> 10, coefTandemGarage |-> 0,
     coefExtraParking |-> 0, coefAssessment |-> 0, coefHasAssessment |-> 0,
     coefTax |-> 0, coefHasTax |-> 0, coefFeePerSqft |-> 0,
     coefListPrice |-> {0}, coefHasListPrice |-> {0},
     isLogLinear |-> TRUE, stdError |-> 1]

\* each under the log-linear and under the linear specification
CoefficientSet ==
    {[co EXCEPT !.isLogLinear = b] : co \in {Mock, Bare, Heavy, Scenario}, b \in BOOLEAN}

\* the batch the Model in use behind the calculator form was built from
SampleBatch == <<Home, Sparse>>

\* a batch with more valid listings (19) than design columns (18)
LargeBatch == [i \in 1..19 |-> IF i <= 17 THEN Home ELSE Sparse]

\* the numerical outcomes of the solver considered, coefficients that are
\* all 0 among them
SolverOutcomes == {0, 1}

\* the record of generateMarketModel(d) called now
FitOf(d, fp) == [data |-> d, year |-> currentYear, outcome |-> generateMarketModel(d, fp)]

\* the entries of the matrices considered, in units of 1e-10: zero, a
\* non-zero value below the pivot floor, and two values above it
Entries == {Rat(0, 1), Rat(1, 2), Rat(2, 1), Rat(0 - 2, 1)}

\* the r-by-c matrix with the given diagonal, one value above it and one below
MatrixOf(r, c, diag, upper, lower) ==
    NewMatrix([i \in 1..r |-> [j \in 1..c |->
                  IF i = j THEN diag[i] ELSE IF i < j THEN upper ELSE lower]])

\* the matrices of at most MaxDim rows and columns considered: up to two rows
\* and columns, every matrix with these entries
MatrixSet ==
    UNION {{MatrixOf(r, c, diag, upper, lower) :
               diag \in [1..(IF r < c THEN r ELSE c) -> Entries],
               upper \in Entries, lower \in Entries} :
              r \in 1..MaxDim, c \in 1..MaxDim}

\* one right-hand operand of every shape: entry (i, j) is i - 2j + 1/2
Operand(r, c) == NewMatrix([i \in 1..r |-> [j \in 1..c |-> Rat(2 * i - 4 * j + 1, 2)]])

OperandSet == {Operand(r, c) : r \in 1..MaxDim, c \in 1..MaxDim}

\* the rows and the targets of the regression data considered
RowSet == {<<>>, <<1>>, <<2>>, <<1, 2>>}

TargetSet == {1, 3}

\* the design matrix of n rows and p columns of the synthetic data: a column
\* of 1s and, for p = 2, the column -(n - 1), -(n - 3), ..., n - 1
Design(n, p) ==
    [i \in 1..n |-> [j \in 1..p |-> IF j = 1 THEN Rat(1, 1) ELSE Rat((2 * i) - n - 1, 1)]]

\* the coefficients the synthetic data is generated from
BetaSet == {Rat(0 - 1, 1), Rat(0, 1), Rat(1, 2), Rat(1, 1), Rat(2, 1)}

\* the noise of row i of the synthetic data: none, or a thousandth with
\* alternating sign
NoiseSet == {"none", "small"}

Noise(kind, i) ==
    IF kind = "none" THEN Rat(0, 1) ELSE Rat(IF i % 2 = 0 THEN 1 ELSE 0 - 1, 1000)

\* y = X * beta + noise
Generated(X_data, beta, kind) ==
    [i \in 1..Len(X_data) |->
        RatAdd(RatSum([j \in 1..Len(beta) |-> RatMul(X_data[i][j], beta[j])]),
               Noise(kind, i))]

\* the synthetic data considered: more rows than columns, at most two columns
SyntheticSet ==
    UNION {{[X_data |-> Design(np[1], np[2]),
             y_data |-> Generated(Design(np[1], np[2]), beta, kind)] :
               beta \in [1..np[2] -> BetaSet], kind \in NoiseSet} :
              np \in {q \in (2..(MaxRows + 1)) \X (1..2) : q[2] < q[1]}}

\* the sequences of at most n elements of S
SeqUpTo(S, n) == UNION {[1..k -> S] : k \in 0..n}

(***************************************************************************)
(* Operations.                                                             *)
(***************************************************************************)
\* the scraper delivers one more listing record; the listings are collected
\* before the model is built from them
Scrape(l) ==
    /\ Len(data) < MaxListings
    /\ fit = <<>>
    /\ data' = Append(data, l)
    /\ UNCHANGED <<fit, currentYear, inputs, coefficients, edits, calls, operands, outcome>>

\* generateMarketModel(data)
Fit(fp) ==
    /\ fit' = <<FitOf(data, fp)>>
    /\ UNCHANGED <<data, currentYear, inputs, coefficients, edits, calls, operands, outcome>>

\* generateMarketModel(data) called once more: the Model returned before is
\* kept beside the new one
Refit(fp) ==
    /\ Len(fit) = 1
    /\ fit' = Append(fit, FitOf(data, fp))
    /\ UNCHANGED <<data, currentYear, inputs, coefficients, edits, calls, operands, outcome>>

\* the calendar year changes
NewYear ==
    /\ currentYear < StartYear + MaxYears
    /\ currentYear' = currentYear + 1
    /\ UNCHANGED <<data, fit, inputs, coefficients, edits, calls, operands, outcome>>

\* the user changes one field of the form
EditInput(f, v) ==
    /\ edits < MaxEdits
    /\ v # inputs[f]
    /\ inputs' = [inputs EXCEPT ![f] = v]
    /\ edits' = edits + 1
    /\ UNCHANGED <<data, fit, currentYear, coefficients, calls, operands, outcome>>

\* the record of one call
Call(fn, in, co, price, result) ==
    [fn |-> fn, inputs |-> in, coefficients |-> co, year |-> currentYear,
     price |-> price, result |-> result]

Record(call) ==
    calls' = IF calls = <<>> THEN <<call>> ELSE <<calls[Len(calls)], call>>

LastCall == calls[Len(calls)]

\* predictPrice(inputs, coefficients)
PredictPrice ==
    LET price == predictPrice(inputs, coefficients)
    IN  /\ Record(Call("predictPrice", inputs, coefficients, price, price))
        /\ UNCHANGED <<data, fit, currentYear, inputs, coefficients, edits, operands, outcome>>

\* calculatePriceRange(price, coefficients) for the price just predicted
PriceRange ==
    /\ calls # <<>>
    /\ LastCall.fn = "predictPrice"
    /\ LastCall.coefficients = coefficients
    /\ Record(Call("calculatePriceRange", LastCall.inputs,
                   [isLogLinear |-> coefficients.isLogLinear,
                    stdError |-> coefficients.stdError],
                   LastCall.price,
                   calculatePriceRange(LastCall.price, coefficients)))
    /\ UNCHANGED <<data, fit, currentYear, inputs, coefficients, edits, operands, outcome>>

\* calculatePriceRange(price, model) for the price just predicted: the Model
\* has the isLogLinear and stdError the function picks
PriceRangeOfModel ==
    /\ calls # <<>>
    /\ LastCall.fn = "predictPrice"
    /\ LastCall.coefficients.isLogLinear
    /\ fit # <<>>
    /\ fit[1].outcome.model # <<>>
    /\ LET model == fit[1].outcome.model[1]
       IN  Record(Call("calculatePriceRange", LastCall.inputs,
                       [isLogLinear |-> model.isLogLinear, stdError |-> model.stdError],
                       LastCall.price,
                       calculatePriceRange(LastCall.price, model)))
    /\ UNCHANGED <<data, fit, currentYear, inputs, coefficients, edits, operands, outcome>>

\* calculateComponentImpacts writing the two bedrooms of its baseline into
\* the prediction input
ComponentImpactsOnBaseline ==
    /\ Record(Call("calculateComponentImpacts", inputs, coefficients,
                   predictPrice(inputs, coefficients),
                   calculateComponentImpacts(inputs, coefficients)))
    /\ inputs' = [inputs EXCEPT !.bedrooms = 2]
    /\ UNCHANGED <<data, fit, currentYear, coefficients, edits, operands, outcome>>

\* calculateComponentImpacts(inputs, coefficients)
ComponentImpacts ==
    /\ Record(Call("calculateComponentImpacts", inputs, coefficients,
                   predictPrice(inputs, coefficients),
                   calculateComponentImpacts(inputs, coefficients)))
    /\ UNCHANGED <<data, fit, currentYear, inputs, coefficients, edits, operands, outcome>>

(***************************************************************************)
(* Spec: the Model Builder at work over the years, the Predictor called    *)
(* beside it.                                                              *)
(***************************************************************************)
\* M.transpose()
Transpose ==
    /\ outcome' = [fn |-> "transpose", A |-> operands, result |-> transpose(operands)]
    /\ UNCHANGED <<data, fit, currentYear, inputs, coefficients, edits, calls, operands>>

\* A.multiply(B)
Multiply(B) ==
    /\ outcome' = [fn |-> "multiply", A |-> operands, B |-> B,
                   result |-> multiply(operands, B)]
    /\ UNCHANGED <<data, fit, currentYear, inputs, coefficients, edits, calls, operands>>

\* M.inverse()
Inverse ==
    /\ outcome' = [fn |-> "inverse", A |-> operands, result |-> inverse(operands),
                   divisions |-> DivisionsOf(operands)]
    /\ UNCHANGED <<data, fit, currentYear, inputs, coefficients, edits, calls, operands>>

\* solveOLS(X_data, y_data) called directly
SolveOLS(fp) ==
    /\ outcome' = [fn |-> "solveOLS", X_data |-> operands.X_data,
                   y_data |-> operands.y_data,
                   result |-> solveOLS(operands.X_data, operands.y_data, fp)]
    /\ UNCHANGED <<data, fit, currentYear, inputs, coefficients, edits, calls, operands>>

\* solveOLS(X_data, y_data) called directly on synthetic data of more rows
\* than columns, its normal equation evaluated
SolveSynthetic ==
    /\ LET solved == NormalEquation(operands.X_data, operands.y_data)
       IN  /\ AboveFloor(solved.XtX)
           /\ outcome' = [fn |-> "solveOLS on synthetic data",
                          X_data |-> operands.X_data, y_data |-> operands.y_data,
                          XtX_inv |-> solved.XtX_inv, betas |-> solved.betas]
    /\ UNCHANGED <<data, fit, currentYear, inputs, coefficients, edits, calls, operands>>

\* the result r of solveOLS after betas[0] = v: the assignment shows in all
\* three arrays when they are one array
Assigned(r, v) ==
    IF r.shared
    THEN [r EXCEPT !.betas[1] = v, !.stdErrors[1] = v, !.tStats[1] = v]
    ELSE [r EXCEPT !.betas[1] = v]

\* the caller of solveOLS finds every coefficient 0 and assigns betas[0] = v,
\* as the mean-intercept fallback of generateMarketModel does
AssignIntercept(v) ==
    /\ outcome # <<>>
    /\ outcome.fn = "solveOLS"
    /\ ~outcome.result.threw
    /\ ~outcome.result.nan
    /\ Len(outcome.result.betas) >= 1
    /\ \A j \in 1..Len(outcome.result.betas) : outcome.result.betas[j] = 0
    /\ outcome' = [fn |-> "betas[0] =", X_data |-> outcome.X_data,
                   y_data |-> outcome.y_data, returned |-> outcome.result,
                   result |-> Assigned(outcome.result, v)]
    /\ UNCHANGED <<data, fit, currentYear, inputs, coefficients, edits, calls, operands>>

Init ==
    /\ data = <<>>
    /\ fit = <<>>
    /\ currentYear = StartYear
    /\ inputs = AsInputs(Sparse)
    /\ coefficients = Mock
    /\ edits = 0
    /\ calls = <<>>
    /\ operands = <<>>
    /\ outcome = <<>>

Next ==
    \/ \E l \in ListingSet : Scrape(l)
    \/ \E fp \in SolverOutcomes : Fit(fp)
    \/ NewYear
    \/ PredictPrice

Spec == Init /\ [][Next]_vars

(***************************************************************************)
(* SpecCalc: the Predictor and the Decomposer behind the calculator form,  *)
(* with a Model built from SampleBatch.                                    *)
(***************************************************************************)
InitCalc ==
    /\ data = SampleBatch
    /\ currentYear = StartYear
    /\ fit = <<FitOf(SampleBatch, 1)>>
    /\ inputs \in {AsInputs(Home), ZeroInputs}
    /\ coefficients \in CoefficientSet
    /\ edits = 0
    /\ calls = <<>>
    /\ operands = <<>>
    /\ outcome = <<>>

NextCalc ==
    \/ \E f \in DOMAIN FieldValues : \E v \in FieldValues[f] : EditInput(f, v)
    \/ PredictPrice
    \/ PriceRange
    \/ PriceRangeOfModel
    \/ ComponentImpacts

SpecCalc == InitCalc /\ [][NextCalc]_vars

(***************************************************************************)
(* SpecMatrix: the Matrix library applied to a matrix.                     *)
(***************************************************************************)
InitMatrix ==
    /\ data = <<>>
    /\ fit = <<>>
    /\ currentYear = StartYear
    /\ inputs = ZeroInputs
    /\ coefficients = Mock
    /\ edits = 0
    /\ calls = <<>>
    /\ operands \in MatrixSet
    /\ outcome = <<>>

NextMatrix ==
    \/ Transpose
    \/ \E B \in OperandSet : Multiply(B)
    \/ Inverse

SpecMatrix == InitMatrix /\ [][NextMatrix]_vars

(***************************************************************************)
(* SpecSolver: the OLS Solver called on regression data, and the Model     *)
(* Builder called on SampleBatch or LargeBatch.                            *)
(***************************************************************************)
InitSolver ==
    /\ fit = <<>>
    /\ currentYear = StartYear
    /\ inputs = ZeroInputs
    /\ coefficients = Mock
    /\ edits = 0
    /\ calls = <<>>
    /\ \/ /\ data = SampleBatch
          /\ operands \in [X_data : SeqUpTo(RowSet, MaxRows),
                            y_data : SeqUpTo(TargetSet, MaxRows)]
       \/ /\ data = LargeBatch
          /\ operands = [X_data |-> <<>>, y_data |-> <<>>]
    /\ outcome = <<>>

NextSolver ==
    \/ \E fp \in SolverOutcomes : SolveOLS(fp)
    \/ \E v \in TargetSet : AssignIntercept(v)
    \/ \E fp \in SolverOutcomes : Fit(fp)

SpecSolver == InitSolver /\ [][NextSolver]_vars

(***************************************************************************)
(* SpecShared: the Predictor, the Decomposer, the OLS Solver and the Model *)
(* Builder called in any order on the same Model, coefficient record,      *)
(* prediction input, listing records and regression data.                  *)
(***************************************************************************)
\* the regression data passed to solveOLS: two rows with their targets, and
\* the same rows without targets
SharedOperands ==
    {[X_data |-> <<<<1>>, <<2>>>>, y_data |-> y] : y \in {<<1, 3>>, <<>>}}

InitShared ==
    /\ data = SampleBatch
    /\ currentYear = StartYear
    /\ fit = <<FitOf(SampleBatch, 1)>>
    /\ inputs \in {AsInputs(Home), ZeroInputs}
    /\ coefficients \in CoefficientSet
    /\ edits = 0
    /\ calls = <<>>
    /\ operands \in SharedOperands
    /\ outcome = <<>>

NextShared ==
    \/ PredictPrice
    \/ PriceRange
    \/ ComponentImpacts
    \/ \E fp \in SolverOutcomes : SolveOLS(fp)
    \/ \E fp \in SolverOutcomes : Refit(fp)

SpecShared == InitShared /\ [][NextShared]_vars

(***************************************************************************)
(* SpecSynthetic: the OLS Solver called on synthetic data.                 *)
(***************************************************************************)
InitSynthetic ==
    /\ data = <<>>
    /\ fit = <<>>
    /\ currentYear = StartYear
    /\ inputs = ZeroInputs
    /\ coefficients = Mock
    /\ edits = 0
    /\ calls = <<>>
    /\ operands \in SyntheticSet
    /\ outcome = <<>>

NextSynthetic == SolveSynthetic

SpecSynthetic == InitSynthetic /\ [][NextSynthetic]_vars

(***************************************************************************)
(* Properties of the Model Builder (checked under Spec).                   *)
(***************************************************************************)
\* the calls of generateMarketModel made so far, as a set
Fits == {fit[k] : k \in 1..Len(fit)}

\* every coefficient of a Model is 0
AllCoefficientsZero(model) ==
    /\ \A f \in {"intercept", "coefSqft", "coefAge", "coefBath", "coefBedrooms",
                 "coefCondition", "coefRainscreen", "coefAC", "coefEndUnit",
                 "coefDoubleGarage", "coefTandemGarage", "coefExtraParking",
                 "coefAssessment", "coefHasAssessment", "coefTax", "coefHasTax",
                 "coefFeePerSqft"} : model[f] = 0
    /\ \A loc \in DOMAIN model.areaCoefficients : model.areaCoefficients[loc] = 0

\* C1: generateMarketModel called with a list in which no listing passes the
\* validity filter (the empty list included) does not throw and returns a
\* Model with sampleSize 0 and every coefficient 0.
C1_EmptyFitReturnsZeroModel ==
    \A f \in Fits :
        SelectSeq(f.data, isValid) = <<>> =>
            /\ ~f.outcome.threw
            /\ f.outcome.model # <<>>
            /\ f.outcome.model[1].sampleSize = 0
            /\ AllCoefficientsZero(f.outcome.model[1])

\* the three conditions of the data model's validity invariant
ThreeConditions(d) == d.price > 100000 /\ d.sqft > 300 /\ d.year > 1900

\* the same with a strata fee required as well
FourConditions(d) == ThreeConditions(d) /\ d.fee > 0

\* the fit f was made on exactly the listings v: one design row and one target
\* value for each, in order, and sampleSize their number
FittedOn(f, v) ==
    /\ Len(f.outcome.X) = Len(v)
    /\ Len(f.outcome.y) = Len(v)
    /\ \A i \in 1..Len(v) :
          /\ i <= Len(f.outcome.X)
          /\ i <= Len(f.outcome.y)
          /\ f.outcome.X[i][2] = v[i].sqft
          /\ f.outcome.X[i][3] = f.year - v[i].year
          /\ f.outcome.y[i] = MathLog(v[i].price)
    /\ f.outcome.model # <<>> => f.outcome.model[1].sampleSize = Len(v)

\* C2 as stated: generateMarketModel fits on exactly the listings with
\* price > 100000, sqft > 300 and year > 1900: each contributes one design row
\* and one target value, no other listing does, and sampleSize is their number.
C2_FitsOnThreeConditions ==
    \A f \in Fits : FittedOn(f, SelectSeq(f.data, ThreeConditions))

\* C2 as amended: generateMarketModel fits on exactly the listings with
\* price > 100000, sqft > 300, year > 1900 and fee > 0: each contributes one
\* design row and one target value, no other listing does, and the sampleSize
\* of the returned Model is their number.
C2_FitsOnFourConditions ==
    \A f \in Fits : FittedOn(f, SelectSeq(f.data, FourConditions))

\* a Model was returned for a batch that holds a fitted listing and a listing
\* left out for its missing strata fee alone
C2_Witness ==
    \E f \in Fits :
        /\ f.outcome.model # <<>>
        /\ Len(f.outcome.X) = 1
        /\ \E i \in 1..Len(f.data) : ThreeConditions(f.data[i]) /\ f.data[i].fee = 0

(***************************************************************************)
(* Properties of the Predictor (checked under SpecCalc, where the year     *)
(* does not change between calls).                                         *)
(***************************************************************************)
\* the calls recorded, as a set
Calls == {calls[k] : k \in 1..Len(calls)}

PredictCalls == {c \in Calls : c.fn = "predictPrice"}

\* the record holds every coefficient the type ModelCoefficients declares
IsModelCoefficients(co) == Defined(co.coefListPrice) /\ Defined(co.coefHasListPrice)

\* the coefficient of the garage type: the garage flags times their coefficients
GarageTerm(in, co) ==
    CASE in.parkingType = "double" -> co.coefDoubleGarage
      [] in.parkingType = "tandem" -> co.coefTandemGarage
      [] OTHER -> 0

\* intercept, location adjustment and the terms of the Model Builder's feature
\* list, each times its coefficient
BuilderFeatureSum(in, co) ==
    LET t == PredictorTerms(in)
    IN  co.intercept + in.areaCoefVal
        + (t.sqft * co.coefSqft) + (t.age * co.coefAge)
        + (t.bathrooms * co.coefBath) + (t.bedrooms * co.coefBedrooms)
        + (t.condition * co.coefCondition)
        + (t.isRain * co.coefRainscreen) + (t.isAC * co.coefAC)
        + (t.isEnd * co.coefEndUnit)
        + GarageTerm(in, co)
        + (t.extraParking * co.coefExtraParking)
        + (t.logAssessment * co.coefAssessment)
        + (t.hasAssessment * co.coefHasAssessment)
        + (t.taxPerSqft * co.coefTax) + (t.hasTax * co.coefHasTax)
        + (t.feePerSqft * co.coefFeePerSqft)

\* the two list-price terms, each times its coefficient
ListPriceSum(in, co) ==
    LET t == PredictorTerms(in)
    IN  (t.logListPrice * ValueOf(co.coefListPrice))
        + (t.hasListPrice * ValueOf(co.coefHasListPrice))

\* every feature of the input at zero, and a zero location adjustment
AtBaseline(in) ==
    LET t == PredictorTerms(in)
    IN  /\ in.areaCoefVal = 0
        /\ in.parkingType = "std"
        /\ \A k \in DOMAIN t : t[k] = 0

\* only intercept, coefSqft, coefAge, coefBath and coefDoubleGarage are non-zero
OnlyScenarioCoefficients(co) ==
    /\ IsModelCoefficients(co)
    /\ \A k \in {"intercept", "coefSqft", "coefAge", "coefBath", "coefDoubleGarage"} :
          co[k] # 0
    /\ \A k \in {"coefBedrooms", "coefCondition", "coefRainscreen", "coefAC",
                 "coefEndUnit", "coefTandemGarage", "coefExtraParking",
                 "coefAssessment", "coefHasAssessment", "coefTax", "coefHasTax",
                 "coefFeePerSqft"} : co[k] = 0
    /\ ValueOf(co.coefListPrice) = 0
    /\ ValueOf(co.coefHasListPrice) = 0

C4_LinearPriceIsLogPrice ==
    \A c \in PredictCalls :
        LET logLinear == [c.coefficients EXCEPT !.isLogLinear = TRUE]
        IN  (IsModelCoefficients(c.coefficients) /\ ~c.coefficients.isLogLinear) =>
                /\ c.result.x = 0
                /\ c.result.m = predictPrice(c.inputs, logLinear).x

\* the design row generateMarketModel built for the listing d in the fit f
RowsOf(f, d) ==
    LET v == SelectSeq(f.data, isValid)
    IN  {f.outcome.X[i] : i \in {k \in 1..Len(v) : v[k] = d /\ k <= Len(f.outcome.X)}}

\* the terms of predictPrice in the order of the design-row columns 1 .. 16
\* (column 0 is the constant 1)
TermsInColumnOrder(in) ==
    LET t == PredictorTerms(in)
    IN  <<t.sqft, t.age, t.bathrooms, t.bedrooms, t.condition, t.isRain, t.isAC,
          t.isEnd,
          IF in.parkingType = "double" THEN 1 ELSE 0,
          IF in.parkingType = "tandem" THEN 1 ELSE 0,
          t.extraParking, t.logAssessment, t.hasAssessment, t.taxPerSqft,
          t.hasTax, t.feePerSqft>>

\* C5: for a listing record and a prediction input that carry the same
\* attribute values (fitted and predicted in the same year), every term the
\* Predictor computes equals the entry the Model Builder puts in the
\* corresponding design-row column, also when bathrooms, bedrooms, condition
\* or the parking count is 0 or missing.
C5_PredictorTermsEqualDesignRow ==
    \A f \in Fits : \A c \in PredictCalls :
        (f.year = currentYear /\ c.year = currentYear) =>
            \A i \in 1..Len(f.data) :
                c.inputs = AsInputs(f.data[i]) =>
                    \A row \in RowsOf(f, f.data[i]) :
                        \A j \in 1..16 : row[j + 1] = TermsInColumnOrder(c.inputs)[j]

\* C6: the result of predictPrice (and of calculateComponentImpacts and
\* generateMarketModel) is a function of the arguments only: two calls with
\* equal arguments return equal results whenever each is made.
C6_EqualArgumentsEqualResults ==
    \A a \in Calls : \A b \in Calls :
        (/\ a.fn \in {"predictPrice", "calculateComponentImpacts"}
         /\ a.fn = b.fn
         /\ a.inputs = b.inputs
         /\ a.coefficients = b.coefficients) =>
            a.result = b.result

RangeCalls == {c \in Calls : c.fn = "calculatePriceRange"}

\* C7 as stated: for every price predictPrice returns and every stdError a
\* Model can carry, the value 0 of a fit with no more listings than columns
\* included, calculatePriceRange returns lowerBound < price < upperBound.
C7_StrictlyInsideRange ==
    \A c \in RangeCalls :
        ~c.price.nan =>
            /\ Less(c.result.lowerBound, c.price)
            /\ Less(c.price, c.result.upperBound)

\* C7 as amended: calculatePriceRange never returns a lowerBound above the
\* price or an upperBound below it; for a price that is a number both
\* inequalities lowerBound < price < upperBound are strict when stdError > 0,
\* and lowerBound = price = upperBound when stdError is 0, the value a Model
\* carries when it was fitted on no more listings than design-matrix columns.
C7_InsideRange ==
    \A c \in RangeCalls :
        /\ ~Less(c.price, c.result.lowerBound)
        /\ ~Less(c.result.upperBound, c.price)
        /\ (~c.price.nan /\ c.coefficients.stdError > 0) =>
              /\ Less(c.result.lowerBound, c.price)
              /\ Less(c.price, c.result.upperBound)
        /\ (~c.price.nan /\ c.coefficients.stdError = 0) =>
              /\ c.result.lowerBound = c.price
              /\ c.result.upperBound = c.price

\* the range of a predicted price was computed with the stdError 0 of the
\* Model fitted on fewer listings than columns
C7_Witness ==
    \E c \in RangeCalls :
        /\ ~c.price.nan
        /\ c.coefficients.stdError = 0
        /\ fit # <<>>
        /\ fit[1].outcome.model # <<>>
        /\ fit[1].outcome.model[1].sampleSize <= Len(fit[1].outcome.X[1])
        /\ c.result.upperBound = c.price

\* the two inputs differ in the field f and in nothing else
DiffersOnlyIn(a, b, f) ==
    /\ a[f] # b[f]
    /\ \A g \in (DOMAIN a) \ {f} : a[g] = b[g]

\* two predictions under one typed coefficient record
PredictPairs ==
    {p \in PredictCalls \X PredictCalls :
        /\ p[1].coefficients = p[2].coefficients
        /\ IsModelCoefficients(p[1].coefficients)}

\* C8 as stated: with coefSqft > 0 and every other input and coefficient held
\* fixed at any values, predictPrice strictly increases whenever sqft increases.
C8_SqftIncreasesPrice ==
    \A p \in PredictPairs :
        (/\ p[1].coefficients.coefSqft > 0
         /\ DiffersOnlyIn(p[1].inputs, p[2].inputs, "sqft")
         /\ p[1].inputs.sqft < p[2].inputs.sqft) =>
            Less(p[1].result, p[2].result)

\* neither the tax-per-sqft nor the fee-per-sqft term contributes
NoPerSqftTerm(in, co) ==
    /\ in.propertyTax <= 0 \/ co.coefTax = 0
    /\ in.strataFee <= 0 \/ co.coefFeePerSqft = 0

\* C8 as amended: with coefSqft > 0, every coefficient a number, every other
\* input and coefficient held fixed, and the two per-square-foot terms not
\* contributing (property tax not positive or coefTax 0, strata fee not
\* positive or coefFeePerSqft 0), predictPrice strictly increases whenever
\* sqft increases.
C8_SqftIncreasesPriceWithoutPerSqftTerms ==
    \A p \in PredictPairs :
        (/\ p[1].coefficients.coefSqft > 0
         /\ DiffersOnlyIn(p[1].inputs, p[2].inputs, "sqft")
         /\ p[1].inputs.sqft < p[2].inputs.sqft
         /\ NoPerSqftTerm(p[1].inputs, p[1].coefficients)) =>
            Less(p[1].result, p[2].result)

\* two predictions were made that differ in a larger sqft alone, for a home
\* with property tax and strata fee whose per-sqft coefficients are 0
C8_Witness ==
    \E p \in PredictPairs :
        /\ p[1].coefficients.coefSqft > 0
        /\ DiffersOnlyIn(p[1].inputs, p[2].inputs, "sqft")
        /\ 0 < p[1].inputs.sqft
        /\ p[1].inputs.sqft < p[2].inputs.sqft
        /\ p[1].inputs.propertyTax > 0
        /\ p[1].inputs.strataFee > 0
        /\ NoPerSqftTerm(p[1].inputs, p[1].coefficients)
        /\ Less(p[1].result, p[2].result)

\* the linear predictor of a prediction, in hundredths: the exponent of a
\* log-linear price, the price itself of a linear one
LinearPredictor(c) == IF c.coefficients.isLogLinear THEN c.result.x ELSE c.result.m

Flag(b) == IF b THEN 1 ELSE 0

\* the change of the one term that reads field f, times its coefficient, from
\* input a to input b
TermChange(f, a, b, co) ==
    CASE f = "year" -> (a.year - b.year) * co.coefAge
      [] f = "bathrooms" -> (b.bathrooms - a.bathrooms) * co.coefBath
      [] f = "bedrooms" -> (b.bedrooms - a.bedrooms) * co.coefBedrooms
      [] f = "condition" -> (b.condition - a.condition) * co.coefCondition
      [] f = "isEndUnit" -> (Flag(b.isEndUnit) - Flag(a.isEndUnit)) * co.coefEndUnit
      [] f = "hasAC" -> (Flag(b.hasAC) - Flag(a.hasAC)) * co.coefAC
      [] f = "isRainscreened" ->
            (Flag(b.isRainscreened) - Flag(a.isRainscreened)) * co.coefRainscreen
      [] f = "parkingType" -> GarageTerm(b, co) - GarageTerm(a, co)
      [] f = "areaCoefVal" -> b.areaCoefVal - a.areaCoefVal

SingleTermFields ==
    {"year", "bathrooms", "bedrooms", "condition", "isEndUnit", "hasAC",
     "isRainscreened", "parkingType", "areaCoefVal"}

FlagCoefficient ==
    [isEndUnit |-> "coefEndUnit", hasAC |-> "coefAC", isRainscreened |-> "coefRainscreen"]

\* C9: changing exactly one of year built, bathrooms, bedrooms, condition,
\* isEndUnit, hasAC, isRainscreened, parkingType or the location adjustment
\* (every coefficient a number) changes the linear predictor of predictPrice
\* by exactly the change of that one term times its coefficient; so the price
\* strictly decreases as age grows when coefAge < 0, strictly increases when
\* an amenity flag with a positive coefficient is switched on or the location
\* adjustment is raised, and double > tandem > std whenever
\* coefDoubleGarage > coefTandemGarage > 0.
C9_SingleFieldChangesOneTerm ==
    \A p \in PredictPairs :
        LET a == p[1].inputs
            b == p[2].inputs
            co == p[1].coefficients
        IN  /\ \A f \in SingleTermFields :
                  DiffersOnlyIn(a, b, f) =>
                      LinearPredictor(p[2]) - LinearPredictor(p[1])
                          = 100 * TermChange(f, a, b, co)
            /\ (DiffersOnlyIn(a, b, "year") /\ b.year < a.year /\ co.coefAge < 0) =>
                  Less(p[2].result, p[1].result)
            /\ \A f \in DOMAIN FlagCoefficient :
                  (DiffersOnlyIn(a, b, f) /\ b[f] /\ co[FlagCoefficient[f]] > 0) =>
                      Less(p[1].result, p[2].result)
            /\ (DiffersOnlyIn(a, b, "areaCoefVal") /\ a.areaCoefVal < b.areaCoefVal) =>
                  Less(p[1].result, p[2].result)
            /\ (/\ DiffersOnlyIn(a, b, "parkingType")
                /\ co.coefDoubleGarage > co.coefTandemGarage
                /\ co.coefTandemGarage > 0) =>
                  /\ (a.parkingType = "tandem" /\ b.parkingType = "double") =>
                        Less(p[1].result, p[2].result)
                  /\ (a.parkingType = "std" /\ b.parkingType = "tandem") =>
                        Less(p[1].result, p[2].result)
                  /\ (a.parkingType = "std" /\ b.parkingType = "double") =>
                        Less(p[1].result, p[2].result)

\* two predictions were made for a tandem and a double garage, all else equal,
\* under coefficients with coefDoubleGarage > coefTandemGarage > 0
C9_Witness ==
    \E p \in PredictPairs :
        /\ DiffersOnlyIn(p[1].inputs, p[2].inputs, "parkingType")
        /\ p[1].inputs.parkingType = "tandem"
        /\ p[2].inputs.parkingType = "double"
        /\ p[1].coefficients.coefDoubleGarage > p[1].coefficients.coefTandemGarage
        /\ p[1].coefficients.coefTandemGarage > 0
        /\ Less(p[1].result, p[2].result)

(***************************************************************************)
(* Properties of the Decomposer (checked under SpecCalc).                  *)
(***************************************************************************)
ImpactCalls == {c \in Calls : c.fn = "calculateComponentImpacts"}

\* the contribution of each of the ten factor groups to the prediction
GroupTerm(g, in, co) ==
    IF g = "valLoc" THEN in.areaCoefVal ELSE ImpactTerms(in, co)[g]

\* C10: for each of the ten factor groups calculateComponentImpacts reports
\* finalPrice minus the counterfactual price, the counterfactual being
\* finalPrice / e^term under the log-linear specification and finalPrice - term
\* under the linear one; so under the linear specification every reported
\* impact, the location impact included, equals the group's term.
C10_ImpactIsPriceMinusCounterfactual ==
    \A c \in ImpactCalls :
        IsModelCoefficients(c.coefficients) =>
            \A g \in Groups :
                LET term == GroupTerm(g, c.inputs, c.coefficients)
                IN  /\ c.result[g].of = c.price
                    /\ c.result[g].without =
                          IF c.coefficients.isLogLinear
                          THEN DivExp(c.price, 100 * term)
                          ELSE AddReal(c.price, 0 - (100 * term))
                    /\ ~c.coefficients.isLogLinear =>
                          c.result[g].of.m - c.result[g].without.m = 100 * term

\* the input with only the factor group g held at its baseline
BaselineOf(g, in) ==
    CASE g = "valLoc" -> [in EXCEPT !.areaCoefVal = 0]
      [] g = "valAge" -> [in EXCEPT !.year = currentYear]
      [] g = "valCondition" -> [in EXCEPT !.condition = 1]
      [] g = "valBath" -> [in EXCEPT !.bathrooms = 1]
      [] g = "valBeds" -> [in EXCEPT !.bedrooms = 2]
      [] g = "valParking" -> [in EXCEPT !.parkingType = "std", !.parkingSpots = 1]
      [] g = "valFeatures" ->
            [in EXCEPT !.isEndUnit = FALSE, !.hasAC = FALSE, !.isRainscreened = FALSE]
      [] g = "valAssessment" -> [in EXCEPT !.assessment = 0]
      [] g = "valTax" -> [in EXCEPT !.propertyTax = 0]
      [] g = "valFee" -> [in EXCEPT !.strataFee = 0]

\* C11: for every factor group and under both specifications the impact
\* calculateComponentImpacts reports equals predictPrice(inputs) minus
\* predictPrice of the same inputs with only that group held at its baseline.
C11_ImpactIsDifferenceOfPredictions ==
    \A c \in ImpactCalls :
        IsModelCoefficients(c.coefficients) =>
            \A g \in Groups :
                /\ c.result[g].of = predictPrice(c.inputs, c.coefficients)
                /\ c.result[g].without =
                      predictPrice(BaselineOf(g, c.inputs), c.coefficients)

\* C12: predictPrice returns a non-negative finite number for every Model,
\* log-linear or linear, and every prediction input with finite attribute
\* values.
C12_PriceIsNonNegativeNumber ==
    \A c \in PredictCalls :
        IsModelCoefficients(c.coefficients) =>
            /\ ~c.result.nan
            /\ c.result.m >= 0

\* C13: predictPrice returns a positive finite price when the coefficient
\* record holds only the coefficients the Model Builder fits (no list-price
\* coefficients) and the input supplies no list price.
C13_PriceWithoutListPriceCoefficients ==
    \A c \in PredictCalls :
        (/\ c.coefficients.isLogLinear
         /\ ~Defined(c.coefficients.coefListPrice)
         /\ ~Defined(c.coefficients.coefHasListPrice)
         /\ c.inputs.listPrice = 0) =>
            /\ ~c.result.nan
            /\ c.result.m > 0

(***************************************************************************)
(* Properties of the location encoding of the Model Builder (checked       *)
(* under Spec).                                                            *)
(***************************************************************************)
\* the key 'city - subArea' of a listing, 'Other' standing for a missing subArea
LocationKey(d) ==
    Trim(d.city) \o <<" ", "-", " ">> \o (IF d.subArea = <<>> THEN Other ELSE Trim(d.subArea))

\* the valid listings of a fit
ValidOf(f) == SelectSeq(f.data, FourConditions)

\* the number of valid listings of a fit at the location key
ListingsAt(f, key) ==
    Cardinality({i \in 1..Len(ValidOf(f)) : LocationKey(ValidOf(f)[i]) = key})

LocationsOf(f) == {LocationKey(ValidOf(f)[i]) : i \in 1..Len(ValidOf(f))}

\* the fits that returned a Model
ModelFits == {f \in Fits : f.outcome.model # <<>>}

\* C19: in every Model fitted on at least one valid listing, areaReference is
\* a location key 'city - subArea' ('Other' for a missing subArea) whose number
\* of valid listings is maximal among all locations, its entries in
\* areaCoefficients and tStats.areaCoefficients are exactly 0, and the key set
\* of areaCoefficients is exactly the set of distinct locations of the valid
\* listings.
C19_ReferenceIsMostFrequentLocation ==
    \A f \in ModelFits :
        LET model == f.outcome.model[1]
        IN  Len(ValidOf(f)) >= 1 =>
               /\ model.areaReference \in LocationsOf(f)
               /\ \A key \in LocationsOf(f) :
                     ListingsAt(f, key) <= ListingsAt(f, model.areaReference)
               /\ DOMAIN model.areaCoefficients = LocationsOf(f)
               /\ DOMAIN model.tStats.areaCoefficients = LocationsOf(f)
               /\ model.areaCoefficients[model.areaReference] = 0
               /\ model.tStats.areaCoefficients[model.areaReference] = 0

\* a Model was fitted on listings of two locations, one with more valid
\* listings than the other and not the first in the list
C19_Witness ==
    \E f \in ModelFits :
        LET ref == f.outcome.model[1].areaReference
        IN  /\ Cardinality(LocationsOf(f)) = 2
            /\ \E key \in LocationsOf(f) : ListingsAt(f, key) < ListingsAt(f, ref)
            /\ LocationKey(ValidOf(f)[1]) # ref

IsMatrix(M) ==
    /\ ~M.threw
    /\ M.rows >= 1 /\ M.cols >= 1
    /\ Len(M.data) = M.rows
    /\ \A i \in 1..M.rows :
          /\ Len(M.data[i]) = M.cols
          /\ \A j \in 1..M.cols : ~IsNaN(M.data[i][j])

\* the dot product of row i of A with column j of B
DotProduct(A, B, i, j) ==
    RatSum([k \in 1..A.cols |-> RatMul(A.data[i][k], B.data[k][j])])

\* C16: inverse applied to a square matrix returns a matrix of the same
\* dimensions without raising, and each of its divisions is by a pivot of
\* absolute value at least 1e-10: the diagonal entry found when its absolute
\* value is at least 1e-10, and 1e-10 otherwise.
C16_InverseDividesByFlooredPivot ==
    (outcome # <<>> /\ outcome.fn = "inverse" /\ outcome.A.rows = outcome.A.cols) =>
        LET n == outcome.A.rows
            R == outcome.result
        IN  /\ IsMatrix(R)
            /\ R.rows = n /\ R.cols = n
            /\ Len(outcome.divisions) = n
            /\ \A k \in 1..n :
                  LET found == outcome.divisions[k].found
                      pivot == outcome.divisions[k].pivot
                      floor == Rat(PivotFloor, 1)
                  IN  /\ ~IsNaN(pivot)
                      /\ ~RatLess(MathAbs(pivot), floor)
                      /\ RatLess(MathAbs(found), floor) => pivot = floor
                      /\ ~RatLess(MathAbs(found), floor) => pivot = found

\* inverse was applied to a singular 2-by-2 matrix whose first pivot was
\* large enough and whose second pivot was found to be 0
C16_Witness ==
    /\ outcome # <<>> /\ outcome.fn = "inverse"
    /\ outcome.A.rows = 2 /\ outcome.A.cols = 2
    /\ ~outcome.result.threw
    /\ outcome.divisions[1].pivot = outcome.divisions[1].found
    /\ outcome.divisions[2].found = Rat(0, 1)
    /\ outcome.divisions[2].pivot = Rat(PivotFloor, 1)

\* C17: multiply(A, B) raises the dimension mismatch exactly when the column
\* count of A differs from the row count of B, and otherwise returns the
\* rows(A)-by-cols(B) matrix of the dot products of the rows of A with the
\* columns of B; transpose(M) returns the cols(M)-by-rows(M) matrix whose
\* entry (j, i) is the entry (i, j) of M.
C17_MultiplyAndTranspose ==
    /\ (outcome # <<>> /\ outcome.fn = "multiply") =>
          LET A == outcome.A
              B == outcome.B
              C == outcome.result
          IN  /\ C.threw <=> A.cols # B.rows
              /\ C.threw => C = DimensionMismatch
              /\ ~C.threw =>
                    /\ IsMatrix(C)
                    /\ C.rows = A.rows /\ C.cols = B.cols
                    /\ \A i \in 1..A.rows : \A j \in 1..B.cols :
                          C.data[i][j] = DotProduct(A, B, i, j)
    /\ (outcome # <<>> /\ outcome.fn = "transpose") =>
          LET M == outcome.A
              T == outcome.result
          IN  /\ IsMatrix(T)
              /\ T.rows = M.cols /\ T.cols = M.rows
              /\ \A i \in 1..M.rows : \A j \in 1..M.cols :
                    T.data[j][i] = M.data[i][j]

\* a 1-by-2 matrix was multiplied by a 2-by-1 matrix: the column counts
\* differ, the product is the 1-by-1 matrix of one non-zero dot product
C17_Witness ==
    /\ outcome # <<>> /\ outcome.fn = "multiply"
    /\ outcome.A.rows = 1 /\ outcome.A.cols = 2
    /\ outcome.B.rows = 2 /\ outcome.B.cols = 1
    /\ ~outcome.result.threw
    /\ outcome.result.data[1][1] # Rat(0, 1)

(***************************************************************************)
(* Properties of the OLS Solver (checked under SpecSolver).                *)
(***************************************************************************)
\* solveOLS was the last call made
Solved == outcome # <<>> /\ outcome.fn = "solveOLS"

\* the rows of X do not all have the same length
Ragged(X) == \E i, k \in 1..Len(X) : Len(X[i]) # Len(X[k])

\* every entry of the array is the number 0
AllZero(r, array) == ~r.nan /\ \A j \in 1..Len(array) : array[j] = 0

\* C14: no call of solveOLS ends in an exception, and a call whose design
\* matrix is empty, whose rows are malformed or whose target has another
\* length than the design matrix has rows returns coefficients, standard
\* errors and t-statistics that are all 0 and of length p, the length of the
\* first row.
C14_FailureReturnsZeros ==
    Solved =>
        LET X == outcome.X_data
            y == outcome.y_data
            r == outcome.result
        IN  /\ ~r.threw
            /\ (X = <<>> \/ Ragged(X) \/ Len(y) # Len(X)) =>
                  /\ Len(r.betas) = Len(X[1])
                  /\ Len(r.stdErrors) = Len(X[1])
                  /\ Len(r.tStats) = Len(X[1])
                  /\ AllZero(r, r.betas)
                  /\ AllZero(r, r.stdErrors)
                  /\ AllZero(r, r.tStats)

\* C15: a call of solveOLS with a design matrix whose rows do not all have
\* the same length ends in an exception, not in a returned result.
C15_RaggedDesignMatrixRaises ==
    (Solved /\ Ragged(outcome.X_data)) => outcome.result.threw

\* C18: a call of solveOLS with n rows of p columns each, n <= p, returns
\* standard errors and t-statistics that are all 0; a Model fitted on n
\* listings with p design columns, n <= p, has stdError 0 and t-statistics
\* 0; and every division solveOLS makes for its statistics is by n - p > 0
\* or by a standard error that is not below 1e-10.
C18_NoStatisticsWithoutDegreesOfFreedom ==
    /\ Solved =>
          LET X == outcome.X_data
              r == outcome.result
          IN  /\ (X # <<>> /\ ~Ragged(X) /\ Len(X) <= Len(X[1])) =>
                    /\ ~r.threw
                    /\ Len(r.stdErrors) = Len(X[1]) /\ AllZero(r, r.stdErrors)
                    /\ Len(r.tStats) = Len(X[1]) /\ AllZero(r, r.tStats)
              /\ \A d \in r.divisions :
                    /\ d.by = "n - p" => (d.value = Len(X) - Len(X[1]) /\ d.value > 0)
                    /\ d.by = "se" => d.value >= 1
    /\ \A f \in Fits :
          (f.outcome.model # <<>> /\ Len(f.outcome.X) <= Len(f.outcome.X[1])) =>
              LET model == f.outcome.model[1]
              IN  /\ model.stdError = 0
                  /\ \A c \in DOMAIN model.tStats \ {"areaCoefficients"} :
                        model.tStats[c] = 0
                  /\ \A loc \in DOMAIN model.tStats.areaCoefficients :
                        model.tStats.areaCoefficients[loc] = 0

\* solveOLS was called with one row of two columns and a target the
\* coefficients do not reproduce, after a Model was fitted on two listings
C18_Witness ==
    /\ Solved
    /\ outcome.X_data = <<(<<1, 2>>)>>
    /\ outcome.y_data = <<3>>
    /\ ~outcome.result.caught
    /\ outcome.result.betas # <<0, 0>>
    /\ \E f \in Fits : f.outcome.model # <<>> /\ f.outcome.model[1].sampleSize = 2

ColumnNames ==
    <<"intercept", "coefSqft", "coefAge", "coefBath", "coefBedrooms",
      "coefCondition", "coefRainscreen", "coefAC", "coefEndUnit",
      "coefDoubleGarage", "coefTandemGarage", "coefExtraParking",
      "coefAssessment", "coefHasAssessment", "coefTax", "coefHasTax",
      "coefFeePerSqft">>

\* every entry of the array is 0
Zero(array) == \A j \in 1..Len(array) : array[j] = 0

\* C22: a Model fitted on at least one valid listing for which solveOLS
\* returned coefficients that are all 0 has the mean of the target vector as
\* its intercept and 0 as every other coefficient, the location coefficients
\* included.
C22_MeanInterceptOnZeroCoefficients ==
    \A f \in ModelFits :
        LET model == f.outcome.model[1]
        IN  (Zero(f.outcome.ols[1].betas) /\ Len(ValidOf(f)) >= 1) =>
               /\ model.intercept * Len(f.outcome.y) <= SumSeq(f.outcome.y)
               /\ SumSeq(f.outcome.y) < (model.intercept + 1) * Len(f.outcome.y)
               /\ \A k \in 2..17 : model[ColumnNames[k]] = 0
               /\ \A loc \in DOMAIN model.areaCoefficients :
                     model.areaCoefficients[loc] = 0

\* a Model was fitted on two valid listings of two locations for which
\* solveOLS returned only zeros
C22_Witness ==
    \E f \in ModelFits :
        /\ Zero(f.outcome.ols[1].betas)
        /\ Len(ValidOf(f)) = 2
        /\ Cardinality(LocationsOf(f)) = 2
        /\ f.outcome.model[1].intercept > 0

MostFrequent(f) ==
    {loc \in LocationsOf(f) :
        \A other \in LocationsOf(f) : ListingsAt(f, other) <= ListingsAt(f, loc)}

\* the position in the list of valid listings of the first one at loc
FirstAt(f, loc) ==
    CHOOSE i \in 1..Len(ValidOf(f)) :
        /\ LocationKey(ValidOf(f)[i]) = loc
        /\ \A k \in 1..(i - 1) : LocationKey(ValidOf(f)[k]) # loc

Reverse(s) == [i \in 1..Len(s) |-> s[Len(s) + 1 - i]]

\* C29: the reference location of a Model is, among the locations with the
\* highest number of valid listings, the one whose first valid listing comes
\* earliest in the input list.
C29_TieGoesToFirstEncountered ==
    \A f \in ModelFits :
        LET ref == f.outcome.model[1].areaReference
        IN  /\ ref \in MostFrequent(f)
            /\ \A loc \in MostFrequent(f) : FirstAt(f, ref) <= FirstAt(f, loc)

\* a Model was fitted on a list in which two locations have the highest
\* number of valid listings, the reference location is not the location of
\* the last valid listing, and the same list in reverse order gives the other
\* reference location
C29_Witness ==
    \E f \in ModelFits :
        LET ref == f.outcome.model[1].areaReference
            v == ValidOf(f)
        IN  /\ Cardinality(MostFrequent(f)) = 2
            /\ LocationKey(v[Len(v)]) # ref
            /\ f.year = currentYear
            /\ generateMarketModel(Reverse(f.data), 1).model[1].areaReference # ref

(***************************************************************************)
(* The range of a linear model (checked under SpecCalc).                   *)
(***************************************************************************)
\* C26: for a linear model and a price that is a number, calculatePriceRange
\* returns two numbers with price - lowerBound = upperBound - price =
\* 1.28 * stdError (here in hundredths).
C26_LinearRangeIsSymmetric ==
    \A c \in RangeCalls :
        (~c.coefficients.isLogLinear /\ ~c.price.nan) =>
            LET lower == c.result.lowerBound
                upper == c.result.upperBound
            IN  /\ ~lower.nan /\ ~upper.nan
                /\ lower.x = 0 /\ upper.x = 0 /\ c.price.x = 0
                /\ c.price.m - lower.m = 128 * c.coefficients.stdError
                /\ upper.m - c.price.m = 128 * c.coefficients.stdError

\* the range of a price predicted by a linear model was computed with a
\* positive stdError
C26_Witness ==
    \E c \in RangeCalls :
        /\ ~c.coefficients.isLogLinear
        /\ ~c.price.nan
        /\ c.coefficients.stdError > 0
        /\ c.result.lowerBound # c.result.upperBound

(***************************************************************************)
(* The signs of the impacts (checked under SpecCalc).                      *)
(***************************************************************************)
\* the impact finalPrice - p is positive, negative, zero
Positive(impact) == Less(impact.without, impact.of)
Negative(impact) == Less(impact.of, impact.without)
IsZero(impact) == ~impact.of.nan /\ impact.of = impact.without

\* C28: under the log-linear specification each impact
\* calculateComponentImpacts reports is positive when its group's log-space
\* term is positive, negative when the term is negative and 0 when it is 0;
\* so it is positive for a positive location adjustment, for condition above
\* 1, bathrooms above 1, bedrooms above 2 and a double garage without extra
\* parking when their coefficients are positive, and negative for a positive
\* age when the age coefficient is negative.
C28_ImpactHasSignOfTerm ==
    \A c \in ImpactCalls :
        (c.coefficients.isLogLinear /\ IsModelCoefficients(c.coefficients)) =>
            LET in == c.inputs
                co == c.coefficients
            IN  /\ \A g \in Groups :
                      LET term == GroupTerm(g, in, co)
                      IN  /\ term > 0 <=> Positive(c.result[g])
                          /\ term < 0 <=> Negative(c.result[g])
                          /\ term = 0 <=> IsZero(c.result[g])
                /\ in.areaCoefVal > 0 => Positive(c.result.valLoc)
                /\ (in.condition > 1 /\ co.coefCondition > 0) => Positive(c.result.valCondition)
                /\ (in.bathrooms > 1 /\ co.coefBath > 0) => Positive(c.result.valBath)
                /\ (in.bedrooms > 2 /\ co.coefBedrooms > 0) => Positive(c.result.valBeds)
                /\ (in.parkingType = "double" /\ co.coefDoubleGarage > 0
                       /\ in.parkingSpots <= 1) => Positive(c.result.valParking)
                /\ (c.year > in.year /\ co.coefAge < 0) => Negative(c.result.valAge)

\* the impacts of a home ten years old with a tandem garage, two bathrooms
\* and a strata fee were computed under the log-linear specification with a
\* negative age coefficient
C28_Witness ==
    \E c \in ImpactCalls :
        /\ c.coefficients.isLogLinear
        /\ IsModelCoefficients(c.coefficients)
        /\ c.coefficients.coefAge < 0
        /\ c.year - c.inputs.year = 10
        /\ c.inputs.bathrooms = 2
        /\ Negative(c.result.valAge)
        /\ Positive(c.result.valBath)
        /\ Negative(c.result.valFee)

(***************************************************************************)
(* The arrays of a solveOLS result (checked under SpecSolver).             *)
(***************************************************************************)
\* C30: an assignment to betas[0] of a solveOLS result, the all-zero result
\* of a failed call included, leaves every standard error and every
\* t-statistic of that result as it was returned; and the Model fitted with
\* the mean-intercept fallback has tStats.intercept 0.
C30_ArraysAreIndependent ==
    /\ (outcome # <<>> /\ outcome.fn = "betas[0] =") =>
          /\ outcome.result.stdErrors = outcome.returned.stdErrors
          /\ outcome.result.tStats = outcome.returned.tStats
    /\ \A f \in ModelFits :
          Zero(f.outcome.ols[1].betas) => f.outcome.model[1].tStats.intercept = 0

(***************************************************************************)
(* The inverse as an inverse (checked under SpecMatrix).                   *)
(***************************************************************************)
\* the rows d without the first row and without column c
Minor(d, c) ==
    [i \in 1..(Len(d) - 1) |->
        [j \in 1..(Len(d) - 1) |-> IF j < c THEN d[i + 1][j] ELSE d[i + 1][j + 1]]]

\* the determinant of the square rows d, expanded along the first row
RECURSIVE Determinant(_)
Determinant(d) ==
    IF Len(d) = 1 THEN d[1][1]
    ELSE RatSum([c \in 1..Len(d) |->
                    RatMul(IF c % 2 = 1 THEN d[1][c] ELSE RatSub(Rat(0, 1), d[1][c]),
                           Determinant(Minor(d, c)))])

\* the tolerance allowed to an entry of A * inverse(A): a thousandth
Tolerance == Rat(1, 1000)

\* entry (i, j) of P is the entry of the identity matrix within Tolerance
NearIdentity(P, i, j) ==
    LET off == MathAbs(RatSub(P.data[i][j], IF i = j THEN Rat(1, 1) ELSE Rat(0, 1)))
    IN  ~IsNaN(off) /\ ~RatLess(Tolerance, off)

\* C24: for every invertible square matrix A, those with a zero on the
\* leading diagonal included, every entry of multiply(A, inverse(A)) is
\* within a small tolerance of the entry of the identity matrix.
C24_InverseTimesMatrixIsIdentity ==
    (/\ outcome # <<>> /\ outcome.fn = "inverse"
     /\ outcome.A.rows = outcome.A.cols
     /\ Determinant(outcome.A.data) # Rat(0, 1)) =>
        LET P == multiply(outcome.A, outcome.result)
        IN  /\ IsMatrix(P)
            /\ \A i \in 1..P.rows : \A j \in 1..P.cols : NearIdentity(P, i, j)

(***************************************************************************)
(* Recovery of the coefficients (checked under SpecSynthetic).             *)
(***************************************************************************)
\* the tolerance allowed to a recovered coefficient: a hundredth
RecoveryTolerance == Rat(1, 100)

\* the coefficients and the noise the targets of the last call can have been
\* generated from
GeneratedFrom ==
    {g \in [beta : [1..Len(outcome.X_data[1]) -> BetaSet], kind : NoiseSet] :
        outcome.y_data = Generated(outcome.X_data, g.beta, g.kind)}

====
